---- MODULE Spec2Model ----
(***************************************************************************)
(* A model of pw_presubmit/format_code.py: the diff renderer, the four     *)
(* tool adapters (clang-format, gn format, gofmt, yapf), the CodeFormatter *)
(* orchestrator and the main() entry point.                                *)
(*                                                                         *)
(* Text is modelled as sequences of one-character strings, file contents   *)
(* as sequences of byte values, a Python dict as a sequence of <<key,      *)
(* value>> pairs with distinct keys in insertion order, and an             *)
(* Optional[str] as <<>> (None) or <<s>>.  A diff "string" is a sequence   *)
(* of diff-line records; the empty string is <<>>.                         *)
(*                                                                         *)
(* The external formatters are the environment: the canonical form of a    *)
(* content is given by the variable fmt (contents outside its domain are   *)
(* already canonical), and faults is the set of <<language, mode>> pairs   *)
(* whose process exits non-zero (mode "check" or "fix"), plus              *)
(* <<"Python", "stderr">> when yapf writes to stderr.  Both are fixed      *)
(* during a run, so a tool is a function of the file content.              *)
(***************************************************************************)
EXTENDS Integers, Sequences, FiniteSets, TLC

VARIABLES pc, paths, base, fix, inGit, gitListing, files, formats, disk,
          errors, printed, exitCode, trace, logged, fmt, faults, process

vars == <<pc, paths, base, fix, inGit, gitListing, files, formats, disk,
          errors, printed, exitCode, trace, logged, fmt, faults, process>>

(***************************************************************************)
(* Bounds of the model.                                                    *)
(***************************************************************************)
\* longest list of explicit paths given to main
MaxPaths == 2
\* most process-level faults of the environment in one run
MaxFaults == 1
\* longest file content, in bytes, of the per-file check
MaxLen == 2
\* longest path of the classifier check, in characters
MaxPathLen == 4
\* most lines of yapf standard output of the yapf check
MaxLines == 3

(***************************************************************************)
(* Text: characters in code-point order, str.endswith, string comparison   *)
(* and sorted().                                                           *)
(***************************************************************************)
Alphabet == <<".", "/", "a", "b", "c", "d", "e", "g", "h", "i", "n", "o",
              "p", "t", "x", "y">>

CharCode(c) == CHOOSE i \in DOMAIN Alphabet : Alphabet[i] = c

EndsWith(s, e) ==
    /\ Len(s) >= Len(e)
    /\ SubSeq(s, Len(s) - Len(e) + 1, Len(s)) = e

RECURSIVE StrLess(_, _)
StrLess(p, q) ==
    IF q = <<>> THEN FALSE
    ELSE IF p = <<>> THEN TRUE
    ELSE IF Head(p) = Head(q) THEN StrLess(Tail(p), Tail(q))
    ELSE CharCode(Head(p)) < CharCode(Head(q))

RECURSIVE Sorted(_)
Sorted(S) ==
    IF S = {} THEN <<>>
    ELSE LET m == CHOOSE x \in S : \A y \in S \ {x} : StrLess(x, y)
         IN  <<m>> \o Sorted(S \ {m})

Range(s) == {s[i] : i \in DOMAIN s}

IsSortedUnique(s) == \A i \in 1..(Len(s) - 1) : StrLess(s[i], s[i + 1])

(***************************************************************************)
(* Python dicts.                                                           *)
(***************************************************************************)
Keys(d) == {d[i][1] : i \in DOMAIN d}

Get(d, k) == d[CHOOSE i \in DOMAIN d : d[i][1] = k][2]

DictSet(d, k, v) ==
    IF k \in Keys(d)
    THEN [i \in DOMAIN d |-> IF d[i][1] = k THEN <<k, v>> ELSE d[i]]
    ELSE Append(d, <<k, v>>)

RECURSIVE DictUpdate(_, _)
DictUpdate(d, e) ==
    IF e = <<>> THEN d
    ELSE DictUpdate(DictSet(d, Head(e)[1], Head(e)[2]), Tail(e))

SortedItems(d) == LET ks == Sorted(Keys(d))
                  IN  [i \in DOMAIN ks |-> <<ks[i], Get(d, ks[i])>>]

(***************************************************************************)
(* Bytes and decoding.  The byte alphabet holds three ASCII bytes and two  *)
(* bytes that are invalid in UTF-8 wherever they stand; decode with        *)
(* errors='replace' maps each invalid byte to U+FFFD.                      *)
(***************************************************************************)
Bytes == {97, 32, 10, 254, 255}

Replacement == "U+FFFD"

DecodeByte(b) == CASE b = 97 -> "a"
                   [] b = 32 -> " "
                   [] b = 10 -> "\n"
                   [] OTHER  -> Replacement

Decode(data) == [i \in DOMAIN data |-> DecodeByte(data[i])]

RECURSIVE SplitLinesFrom(_, _)
SplitLinesFrom(text, line) ==
    IF text = <<>> THEN (IF line = <<>> THEN <<>> ELSE <<line>>)
    ELSE IF Head(text) = "\n"
         THEN <<Append(line, "\n")>> \o SplitLinesFrom(Tail(text), <<>>)
         ELSE SplitLinesFrom(Tail(text), Append(line, Head(text)))

\* str.splitlines(True)
SplitLines(text) == SplitLinesFrom(text, <<>>)

(***************************************************************************)
(* Diff rendering.  A diff line is a record: tag is the line's raw prefix  *)
(* ("---", "+++", "@@", "-", "+" or " "), text its payload, label the      *)
(* "(original)" or "(reformatted)" marker of a header line.                *)
(***************************************************************************)
DiffLine(tag, text, label) ==
    [tag |-> tag, text |-> text, label |-> label, color |-> ""]

TagAll(tag, lines) == [i \in DOMAIN lines |-> DiffLine(tag, lines[i], "")]

RECURSIVE CommonPrefix(_, _)
CommonPrefix(a, b) ==
    IF a = <<>> \/ b = <<>> \/ Head(a) # Head(b) THEN 0
    ELSE 1 + CommonPrefix(Tail(a), Tail(b))

Reverse(s) == [i \in DOMAIN s |-> s[Len(s) + 1 - i]]

\* difflib.unified_diff: empty when the line lists are equal; otherwise the
\* two header lines and one hunk.  The hunk is rendered as a single replace
\* block between the common leading and trailing lines.
\* pre and suf count the common leading and trailing lines.
HunkLines(a, b, pre, suf) ==
    TagAll(" ", SubSeq(a, 1, pre))
    \o TagAll("-", SubSeq(a, pre + 1, Len(a) - suf))
    \o TagAll("+", SubSeq(b, pre + 1, Len(b) - suf))
    \o TagAll(" ", SubSeq(a, Len(a) - suf + 1, Len(a)))

Hunk(a, b, pre) ==
    HunkLines(a, b, pre,
              CommonPrefix(Reverse(SubSeq(a, pre + 1, Len(a))),
                           Reverse(SubSeq(b, pre + 1, Len(b)))))

UnifiedDiff(a, b, fromfile, tofile) ==
    IF a = b THEN <<>>
    ELSE << DiffLine("---", fromfile, "(original)"),
            DiffLine("+++", tofile, "(reformatted)"),
            DiffLine("@@", <<>>, "") >>
         \o Hunk(a, b, CommonPrefix(a, b))

_colorize_diff_line(line) ==
    [line EXCEPT !.color =
        CASE line.tag \in {"---", "+++"} -> "bold_white"
          [] line.tag = "-"              -> "red"
          [] line.tag = "+"              -> "green"
          [] line.tag = "@@"             -> "aqua"
          [] OTHER                       -> line.color]

colorize_diff(lines) == [i \in DOMAIN lines |-> _colorize_diff_line(lines[i])]

_diff(path, original, formatted) ==
    colorize_diff(UnifiedDiff(SplitLines(Decode(original)),
                              SplitLines(Decode(formatted)), path, path))

\* Python truthiness of an Optional[str]
Truthy(opt) == opt # <<>> /\ opt[1] # <<>>

(***************************************************************************)
(* The external tools.                                                     *)
(***************************************************************************)
Format(content) == IF content \in DOMAIN fmt THEN fmt[content] ELSE content

ExitCode(language, mode) == IF <<language, mode>> \in faults THEN 1 ELSE 0

\* pw_presubmit.log_run: subprocess.run(args, **kwargs); with check=True a
\* non-zero exit raises CalledProcessError
log_run(language, mode, check) ==
    [returncode |-> ExitCode(language, mode),
     raised     |-> check /\ ExitCode(language, mode) # 0]

Run(language, mode, rc) == [op |-> mode, tool |-> language, rc |-> rc]

Read(language) == [op |-> "read", tool |-> language, rc |-> 0]

Result(errs, raised, tr, nlog) ==
    [errors |-> errs, raised |-> raised, trace |-> tr, logged |-> nlog]

(***************************************************************************)
(* The per-file adapters: clang-format, gn format --stdin, gofmt.          *)
(***************************************************************************)
\* the formatter callables handed to _check_files: the tool's standard output
Formatter(language, path, data, d) ==
    CASE language = "GN" -> Format(data)
      [] OTHER           -> Format(d[path])

\* "return None if formatted == original else _diff(...)", proc being the
\* completed run of the tool
Difference(path, language, original, formatted, proc) ==
    [raised |-> proc.raised,
     value  |-> IF proc.raised \/ formatted = original THEN <<>>
                ELSE <<_diff(path, original, formatted)>>,
     trace  |-> <<Read(language), Run(language, "check", proc.returncode)>>]

_diff_formatted(path, language, d) ==
    Difference(path, language, d[path],
               Formatter(language, path, d[path], d),
               log_run(language, "check", TRUE))

RECURSIVE CheckFilesFrom(_, _, _, _, _)
\* the body of the loop of _check_files, for the first path of todo
CheckFile(todo, language, d, errs, tr, difference) ==
    IF difference.raised
    THEN Result(<<>>, TRUE, tr \o difference.trace, 0)
    ELSE CheckFilesFrom(Tail(todo), language, d,
                        IF Truthy(difference.value)
                        THEN DictSet(errs, Head(todo), difference.value[1])
                        ELSE errs,
                        tr \o difference.trace)

CheckFilesFrom(todo, language, d, errs, tr) ==
    IF todo = <<>> THEN Result(errs, FALSE, tr, 0)
    ELSE CheckFile(todo, language, d, errs, tr,
                   _diff_formatted(Head(todo), language, d))

_check_files(todo, language, d) == CheckFilesFrom(todo, language, d, <<>>, <<>>)

check_c_format(todo, d) == _check_files(todo, "C and C++", d)

check_gn_format(todo, d) == _check_files(todo, "GN", d)

check_go_format(todo, d) == _check_files(todo, "Go", d)

(***************************************************************************)
(* In-place fixing.  A successful run rewrites each named file, in the     *)
(* order given, to its canonical form; a failing run writes nothing.       *)
(***************************************************************************)
RECURSIVE Rewrite(_, _)
Rewrite(todo, d) ==
    IF todo = <<>> THEN d
    ELSE Rewrite(Tail(todo), [d EXCEPT ![Head(todo)] = Format(d[Head(todo)])])

\* the files after proc, the completed in-place run of the tool
Fixed(language, todo, d, proc) ==
    [disk   |-> IF proc.returncode = 0 THEN Rewrite(todo, d) ELSE d,
     raised |-> proc.raised,
     trace  |-> <<Run(language, "fix", proc.returncode)>>]

\* log_run(<tool in place>, *files, check=...)
FixInPlace(language, todo, d, check) ==
    Fixed(language, todo, d, log_run(language, "fix", check))


\* variant: clang-format run without -i, which rewrites nothing
fix_c_format_no_inplace(todo, d) ==
    [FixInPlace("C and C++", todo, d, TRUE) EXCEPT !.disk = d]

fix_c_format(todo, d) == FixInPlace("C and C++", todo, d, TRUE)

fix_gn_format(todo, d) == FixInPlace("GN", todo, d, TRUE)


\* variant: gofmt -w run without check=True
fix_go_format_unchecked(todo, d) == FixInPlace("Go", todo, d, FALSE)

fix_go_format(todo, d) == FixInPlace("Go", todo, d, TRUE)

fix_py_format(todo, d) == FixInPlace("Python", todo, d, TRUE)

(***************************************************************************)
(* The yapf adapter.  yapf --diff writes, for every file whose canonical   *)
(* form differs, a unified diff whose header is "--- <path> (original)".   *)
(***************************************************************************)
RECURSIVE YapfDiff(_, _)
YapfDiff(todo, d) ==
    IF todo = <<>> THEN <<>>
    ELSE LET path == Head(todo)
         IN  UnifiedDiff(SplitLines(Decode(d[path])),
                         SplitLines(Decode(Format(d[path]))), path, path)
             \o YapfDiff(Tail(todo), d)

\* _yapf('--diff', *files): the completed process; no check=True
_yapf(todo, d) ==
    [stdout     |-> YapfDiff(todo, d),
     stderr     |-> IF <<"Python", "stderr">> \in faults
                    THEN <<"yapf: error">> ELSE <<>>,
     returncode |-> log_run("Python", "check", FALSE).returncode]

\* a line matched by _DIFF_START
IsDiffStart(line) == line.tag = "---" /\ line.label = "(original)"

DiffStarts(out) == {i \in DOMAIN out : IsDiffStart(out[i])}

\* the end of the section that starts at match i: the next match, or the end
SectionEnd(out, i) ==
    LET later == {j \in DiffStarts(out) : j > i}
    IN  IF later = {} THEN Len(out)
        ELSE (CHOOSE j \in later : \A k \in later : j <= k) - 1

RECURSIVE SplitDiffs(_, _, _)
SplitDiffs(out, i, errs) ==
    IF i > Len(out) THEN errs
    ELSE IF IsDiffStart(out[i])
         THEN SplitDiffs(out, i + 1,
                         DictSet(errs, out[i].text,
                                 colorize_diff(SubSeq(out, i, SectionEnd(out, i)))))
         ELSE SplitDiffs(out, i + 1, errs)


\* variant: every file is marked unknown, whatever yapf wrote for it
RECURSIVE MarkAllUnknown(_, _)
MarkAllUnknown(todo, errs) ==
    IF todo = <<>> THEN errs
    ELSE MarkAllUnknown(Tail(todo), DictSet(errs, Head(todo), <<>>))

\* errors.update({file: '' for file in files if file not in errors})
RECURSIVE MarkUnknown(_, _)
MarkUnknown(todo, errs) ==
    IF todo = <<>> THEN errs
    ELSE MarkUnknown(Tail(todo),
                     IF Head(todo) \in Keys(errs) THEN errs
                     ELSE DictSet(errs, Head(todo), <<>>))

\* check_py_format once the process has completed
\* "if process.stderr:", given the diffs parsed from standard output
PyMarked(todo, parsed, failed) ==
    Result(IF failed THEN MarkUnknown(todo, parsed) ELSE parsed,
           FALSE, <<>>, IF failed THEN 1 ELSE 0)

\* check_py_format once the process has completed
PyErrors(todo, proc) ==
    PyMarked(todo,
             IF proc.stdout # <<>> THEN SplitDiffs(proc.stdout, 1, <<>>)
             ELSE <<>>,
             proc.stderr # <<>>)

PyChecked(todo, proc) ==
    [PyErrors(todo, proc)
        EXCEPT !.trace = <<Run("Python", "check", proc.returncode)>>]

check_py_format(todo, d) == PyChecked(todo, _yapf(todo, d))

(***************************************************************************)
(* The registry of code formats and the orchestrator.                      *)
(***************************************************************************)

\* variant: the C family also claims the Go extension
C_FORMAT_cgo == [language   |-> "C and C++",
                 extensions |-> {<<".", "h">>, <<".", "h", "h">>,
                                 <<".", "h", "p", "p">>, <<".", "c">>,
                                 <<".", "c", "c">>, <<".", "c", "p", "p">>,
                                 <<".", "g", "o">>}]

C_FORMAT == [language   |-> "C and C++",
             extensions |-> {<<".", "h">>, <<".", "h", "h">>,
                             <<".", "h", "p", "p">>, <<".", "c">>,
                             <<".", "c", "c">>, <<".", "c", "p", "p">>}]

GN_FORMAT == [language   |-> "GN",
              extensions |-> {<<".", "g", "n">>, <<".", "g", "n", "i">>}]

GO_FORMAT == [language |-> "Go", extensions |-> {<<".", "g", "o">>}]

PYTHON_FORMAT == [language |-> "Python", extensions |-> {<<".", "p", "y">>}]

CODE_FORMATS == <<C_FORMAT, GN_FORMAT, GO_FORMAT, PYTHON_FORMAT>>

Languages == {CODE_FORMATS[i].language : i \in DOMAIN CODE_FORMATS}

\* code_format.check(files)
Check(language, todo, d) ==
    CASE language = "C and C++" -> check_c_format(todo, d)
      [] language = "GN"        -> check_gn_format(todo, d)
      [] language = "Go"        -> check_go_format(todo, d)
      [] language = "Python"    -> check_py_format(todo, d)

\* code_format.fix(files)
Fix(language, todo, d) ==
    CASE language = "C and C++" -> fix_c_format(todo, d)
      [] language = "GN"        -> fix_gn_format(todo, d)
      [] language = "Go"        -> fix_go_format(todo, d)
      [] language = "Python"    -> fix_py_format(todo, d)

\* any(path.endswith(e) for e in code_format.extensions)
Matches(path, code_format) ==
    \E e \in code_format.extensions : EndsWith(path, e)

\* self._formats[code_format].append(path), for every matching format
RECURSIVE AddPath(_, _, _)
AddPath(groups, path, i) ==
    IF i > Len(CODE_FORMATS) THEN groups
    ELSE LET code_format == CODE_FORMATS[i]
             lang        == code_format.language
         IN  AddPath(IF Matches(path, code_format)
                     THEN DictSet(groups, lang,
                                  IF lang \in Keys(groups)
                                  THEN Append(Get(groups, lang), path)
                                  ELSE <<path>>)
                     ELSE groups,
                     path, i + 1)

RECURSIVE GroupFiles(_, _)
GroupFiles(todo, groups) ==
    IF todo = <<>> THEN groups
    ELSE GroupFiles(Tail(todo), AddPath(groups, Head(todo), 1))

\* CodeFormatter.__init__: the groups, in order of first insertion
CodeFormatter(fs) == GroupFiles(fs, <<>>)

RECURSIVE CheckGroups(_, _, _, _, _)
\* errors.update(r), r being the first group's check
CheckGroup(groups, d, errs, tr, nlog, r) ==
    IF r.raised
    THEN Result(<<>>, TRUE, tr \o r.trace, nlog + r.logged)
    ELSE CheckGroups(Tail(groups), d, DictUpdate(errs, r.errors),
                     tr \o r.trace, nlog + r.logged)

CheckGroups(groups, d, errs, tr, nlog) ==
    IF groups = <<>> THEN Result(errs, FALSE, tr, nlog)
    ELSE CheckGroup(groups, d, errs, tr, nlog,
                    Check(Head(groups)[1], Head(groups)[2], d))


\* variant: the merged mapping returned in insertion order
CodeFormatter_check_unsorted(groups, d) == CheckGroups(groups, d, <<>>, <<>>, 0)

\* CodeFormatter.check: the merged mapping, sorted by path
CodeFormatter_check(groups, d) ==
    [CheckGroups(groups, d, <<>>, <<>>, 0) EXCEPT !.errors = SortedItems(@)]

RECURSIVE FixGroups(_, _, _)
\* r being the first group's fix
FixGroup(groups, tr, r) ==
    IF r.raised
    THEN [disk |-> r.disk, raised |-> TRUE, trace |-> tr \o r.trace]
    ELSE FixGroups(Tail(groups), r.disk, tr \o r.trace)

FixGroups(groups, d, tr) ==
    IF groups = <<>> THEN [disk |-> d, raised |-> FALSE, trace |-> tr]
    ELSE FixGroup(groups, tr, Fix(Head(groups)[1], Head(groups)[2], d))

\* CodeFormatter.fix
CodeFormatter_fix(groups, d) == FixGroups(groups, d, <<>>)

\* print_format_check: what is written; nothing when errors is empty
print_format_check(errs, show_fix_commands) ==
    IF errs = <<>> THEN <<>>
    ELSE << [count    |-> Len(errs),
             diffs    |-> [i \in DOMAIN errs |-> errs[i][2]],
             commands |-> IF show_fix_commands
                          THEN [i \in DOMAIN errs |-> errs[i][1]]
                          ELSE <<>>] >>

(***************************************************************************)
(* The file system and the inputs of main.  The working directory is "/",  *)
(* so Path.resolve() prefixes a relative name with "/".                    *)
(***************************************************************************)
Good == <<97, 10>>

Ugly == <<32, 97>>

SmallContent == {Good, Ugly}

DiskInit == (<<"/", "a", ".", "c", "c">> :> Ugly)
         @@ (<<"/", "b", ".", "g", "n">> :> Good)
         @@ (<<"/", "c", ".", "g", "o">> :> Ugly)
         @@ (<<"/", "d", ".", "p", "y">> :> Good)
         @@ (<<"/", "e", ".", "t", "x", "t">> :> Ugly)

\* the names main may be given; x.cc does not exist
InputPaths == {<<"a", ".", "c", "c">>, <<"d", ".", "p", "y">>,
               <<"e", ".", "t", "x", "t">>, <<"x", ".", "c", "c">>}

\* the files list_git_files may return, whatever the base and the excludes
Tracked == {<<"/", "b", ".", "g", "n">>, <<"/", "c", ".", "g", "o">>}

resolve(path) == <<"/">> \o path

is_file(path, d) == resolve(path) \in DOMAIN d

SeqsUpTo(S, n) == UNION {[1..k -> S] : k \in 0..n}

FaultKinds == (Languages \X {"check", "fix"}) \cup {<<"Python", "stderr">>}

FaultSets == {F \in SUBSET FaultKinds : Cardinality(F) <= MaxFaults}

\* the tools that bring every content of S to one canonical content
ConstantForms(S) == {[c \in S |-> f] : f \in S}

NoProcess == [stdout |-> <<>>, stderr |-> <<>>, returncode |-> 0]

(***************************************************************************)
(* main(paths, exclude, base, fix).                                        *)
(***************************************************************************)
RECURSIVE ResolveFiles(_, _)
ResolveFiles(ps, d) ==
    IF ps = <<>> THEN <<>>
    ELSE (IF is_file(Head(ps), d) THEN <<resolve(Head(ps))>> ELSE <<>>)
         \o ResolveFiles(Tail(ps), d)

\* the file list main hands on: step 1, and the union with the listing of
\* list_git_files when inside a repository
MainFiles(ps, d, git, listing) ==
    IF git THEN Sorted(listing \cup Range(ResolveFiles(ps, d)))
    ELSE ResolveFiles(ps, d)


\* variant: the base commit is rejected inside a repository instead
RejectsBaseInRepo(git, b) == git /\ b # ""

\* "elif base:" outside a repository
RejectsBase(git, b) == ~git /\ b # ""


\* variant: only entries with a known diff count as errors
HasKnownDiff(errs) == \E i \in DOMAIN errs : errs[i][2] # <<>>

\* "if errors:"
HasErrors(errs) == errs # <<>>

Init ==
    /\ pc = "main"
    /\ paths \in SeqsUpTo(InputPaths, MaxPaths)
    /\ base \in {"", "HEAD~1"}
    /\ fix \in BOOLEAN
    /\ inGit \in BOOLEAN
    /\ gitListing \in (IF inGit THEN SUBSET Tracked ELSE {{}})
    /\ files = <<>>
    /\ formats = <<>>
    /\ disk = DiskInit
    /\ errors = <<>>
    /\ printed = <<>>
    /\ exitCode = <<>>
    /\ trace = <<>>
    /\ logged = 0
    /\ fmt \in ConstantForms(SmallContent)
    /\ faults \in FaultSets
    /\ process = NoProcess

MainResolveFiles ==
    /\ pc = "main"
    /\ files' = MainFiles(paths, disk, inGit, gitListing)
    /\ IF RejectsBase(inGit, base)
       THEN pc' = "done" /\ exitCode' = <<1>>
       ELSE pc' = "construct" /\ UNCHANGED exitCode
    /\ UNCHANGED <<paths, base, fix, inGit, gitListing, formats, disk, errors,
                   printed, trace, logged, fmt, faults, process>>

MainConstruct ==
    /\ pc = "construct"
    /\ formats' = CodeFormatter(files)
    /\ pc' = "check"
    /\ UNCHANGED <<paths, base, fix, inGit, gitListing, files, disk, errors,
                   printed, exitCode, trace, logged, fmt, faults, process>>

MainCheck ==
    /\ pc = "check"
    /\ \E r \in {CodeFormatter_check(formats, disk)} :
           /\ trace' = trace \o r.trace
           /\ logged' = logged + r.logged
           /\ errors' = r.errors
           /\ pc' = IF r.raised THEN "raised" ELSE "report"
    /\ UNCHANGED <<paths, base, fix, inGit, gitListing, files, formats, disk,
                   printed, exitCode, fmt, faults, process>>

MainReport ==
    /\ pc = "report"
    /\ printed' = print_format_check(errors, ~fix)
    /\ pc' = "decide"
    /\ UNCHANGED <<paths, base, fix, inGit, gitListing, files, formats, disk,
                   errors, exitCode, trace, logged, fmt, faults, process>>

\* variant: the fixes are applied whether or not --fix was given
MainFixAlways ==
    /\ pc = "decide"
    /\ HasErrors(errors)
    /\ \E r \in {CodeFormatter_fix(formats, disk)} :
           /\ disk' = r.disk
           /\ trace' = trace \o r.trace
           /\ IF r.raised
              THEN pc' = "raised" /\ UNCHANGED exitCode
              ELSE pc' = "done" /\ exitCode' = <<0>>
    /\ UNCHANGED <<paths, base, fix, inGit, gitListing, files, formats,
                   errors, printed, logged, fmt, faults, process>>

MainFix ==
    /\ pc = "decide"
    /\ HasErrors(errors)
    /\ fix
    /\ \E r \in {CodeFormatter_fix(formats, disk)} :
           /\ disk' = r.disk
           /\ trace' = trace \o r.trace
           /\ IF r.raised
              THEN pc' = "raised" /\ UNCHANGED exitCode
              ELSE pc' = "done" /\ exitCode' = <<0>>
    /\ UNCHANGED <<paths, base, fix, inGit, gitListing, files, formats,
                   errors, printed, logged, fmt, faults, process>>

MainFail ==
    /\ pc = "decide"
    /\ HasErrors(errors)
    /\ ~fix
    /\ pc' = "done"
    /\ exitCode' = <<1>>
    /\ UNCHANGED <<paths, base, fix, inGit, gitListing, files, formats, disk,
                   errors, printed, trace, logged, fmt, faults, process>>

MainSucceed ==
    /\ pc = "decide"
    /\ ~HasErrors(errors)
    /\ pc' = "done"
    /\ exitCode' = <<0>>
    /\ UNCHANGED <<paths, base, fix, inGit, gitListing, files, formats, disk,
                   errors, printed, trace, logged, fmt, faults, process>>

Next ==
    \/ MainResolveFiles
    \/ MainConstruct
    \/ MainCheck
    \/ MainReport
    \/ MainFix
    \/ MainFail
    \/ MainSucceed

Spec == Init /\ [][Next]_vars

(***************************************************************************)
(* Properties of a run of main.                                            *)
(***************************************************************************)
Rejected == ~inGit /\ base # ""

Events(op) == {i \in DOMAIN trace : trace[i].op = op}

ChecksOf(lang, upto) ==
    Cardinality({j \in Events("check") : j < upto /\ trace[j].tool = lang})

\* the check invocations a group takes: one per file, or one yapf run
ChecksNeeded(group) == IF group[1] = "Python" THEN 1 ELSE Len(group[2])

\* a process whose non-zero exit raises
Fatal(e) == e.rc # 0 /\ ~(e.tool = "Python" /\ e.op = "check")

Perms(s) == {p \in [DOMAIN s -> Range(s)] : Range(p) = Range(s)}

\* C1: when main returns, the exit code is 0 exactly when check() returned
\* an empty mapping or a non-empty one with fix requested, and 1 exactly
\* when check() returned a non-empty mapping without fix or a base revision
\* was given outside a repository; a mapping of empty diffs is non-empty.
C1_ExitCode ==
    pc = "done" =>
        /\ exitCode \in {<<0>>, <<1>>}
        /\ exitCode = <<0>> <=> (~Rejected /\ (errors = <<>> \/ fix))
        /\ exitCode = <<1>> <=> (Rejected \/ (errors # <<>> /\ ~fix))

C1_Witness ==
    /\ pc = "done"
    /\ exitCode = <<1>>
    /\ ~Rejected
    /\ errors # <<>>
    /\ \A i \in DOMAIN errors : errors[i][2] = <<>>

\* C2: outside a repository with a base revision, main returns 1 and no
\* tool is invoked and no file is read or modified, whatever the paths and
\* the fix flag.
C2_RejectBase ==
    (Rejected /\ pc # "main") =>
        /\ pc = "done"
        /\ exitCode = <<1>>
        /\ trace = <<>>
        /\ disk = DiskInit
        /\ printed = <<>>

C2_Witness ==
    /\ Rejected
    /\ pc = "done"
    /\ fix
    /\ \E i \in DOMAIN files : /\ Matches(files[i], C_FORMAT)
                               /\ Format(disk[files[i]]) # disk[files[i]]

\* C3: a fix invocation happens only after every group has been checked,
\* only when fix was requested and the check mapping is non-empty; each
\* group is fixed at most once, nothing is checked or read after a fix, and
\* without a fix invocation no file is modified.
C3_PhaseOrder ==
    /\ \A i \in Events("fix") :
          /\ fix
          /\ errors # <<>>
          /\ pc \in {"done", "raised"}
          /\ \A j \in DOMAIN trace : j > i => trace[j].op = "fix"
          /\ \A j \in Events("fix") : j # i => trace[j].tool # trace[i].tool
          /\ \A g \in DOMAIN formats :
                ChecksOf(formats[g][1], i) = ChecksNeeded(formats[g])
    /\ disk # DiskInit => Events("fix") # {}
    /\ (~fix \/ errors = <<>>) => disk = DiskInit

C3_Witness ==
    /\ pc = "done"
    /\ Cardinality(Events("fix")) >= 2
    /\ disk # DiskInit

\* C4: the file list main hands to the orchestrator has no path twice and
\* is in ascending order, inside or outside a repository.
C4_SortedUnique == pc \in {"construct", "check"} => IsSortedUnique(files)

\* C7: a non-zero exit during a fix, or during a check by clang-format, gn
\* or gofmt, aborts the run: it is the last invocation, main returns no
\* exit code, and after a failing check nothing is reported; the run is
\* aborted by nothing else, so a non-zero exit of the yapf check alone
\* does not abort it.
C7_FatalInvocation ==
    /\ \A i \in DOMAIN trace :
          Fatal(trace[i]) =>
              /\ i = Len(trace)
              /\ pc = "raised"
              /\ exitCode = <<>>
              /\ trace[i].op = "check" => (printed = <<>> /\ errors = <<>>)
    /\ pc = "raised" => (trace # <<>> /\ Fatal(trace[Len(trace)]))

C7_Witness ==
    /\ pc = "raised"
    /\ Len(formats) >= 2
    /\ trace[Len(trace)].op = "fix"
    /\ trace[Len(trace)].tool = formats[Len(formats)][1]

FormatterInit ==
    /\ pc = "new"
    /\ formats' = CodeFormatter(files)
    /\ pc' = "built"
    /\ UNCHANGED <<paths, base, fix, inGit, gitListing, files, disk, errors,
                   printed, exitCode, trace, logged, fmt, faults, process>>

FormatterFix ==
    /\ pc = "built"
    /\ \E r \in {CodeFormatter_fix(formats, disk)} :
           /\ disk' = r.disk
           /\ trace' = trace \o r.trace
           /\ pc' = IF r.raised THEN "raised" ELSE "fixed"
    /\ UNCHANGED <<paths, base, fix, inGit, gitListing, files, formats,
                   errors, printed, exitCode, logged, fmt, faults, process>>

FormatterCheck ==
    /\ pc = "fixed"
    /\ \E r \in {CodeFormatter_check(formats, disk)} :
           /\ trace' = trace \o r.trace
           /\ logged' = logged + r.logged
           /\ errors' = r.errors
           /\ pc' = IF r.raised THEN "raised" ELSE "checked"
    /\ UNCHANGED <<paths, base, fix, inGit, gitListing, files, formats, disk,
                   printed, exitCode, fmt, faults, process>>

\* the state shared by the specifications that do not run main
Idle ==
    /\ paths = <<>>
    /\ base = ""
    /\ fix = FALSE
    /\ inGit = FALSE
    /\ gitListing = {}
    /\ formats = <<>>
    /\ errors = <<>>
    /\ printed = <<>>
    /\ exitCode = <<>>
    /\ trace = <<>>
    /\ logged = 0

InitFixCheck ==
    /\ Idle
    /\ pc = "new"
    /\ files \in SeqsUpTo(DOMAIN DiskInit, MaxPaths)
    /\ disk \in {[p \in DOMAIN DiskInit |-> IF p \in B THEN Ugly ELSE Good] :
                    B \in SUBSET Range(files)}
    /\ fmt \in [SmallContent -> SmallContent]
    /\ faults \in FaultSets
    /\ process = NoProcess

NextFixCheck == FormatterInit \/ FormatterFix \/ FormatterCheck

SpecFixCheck == InitFixCheck /\ [][NextFixCheck]_vars

Idempotent(f) == \A c \in DOMAIN f : Format(f[c]) = f[c]

PathChars == {".", "a", "c", "g", "h", "i", "n", "o", "p", "y"}

InitClassify ==
    /\ Idle
    /\ pc = "new"
    /\ files \in {<<p>> : p \in SeqsUpTo(PathChars, MaxPathLen)}
    /\ disk = DiskInit
    /\ fmt \in ConstantForms({Good})
    /\ faults = {}
    /\ process = NoProcess

NextClassify == FormatterInit

SpecClassify == InitClassify /\ [][NextClassify]_vars

Owners(path) == {g \in DOMAIN formats : path \in Range(formats[g][2])}

Matching(path) == {i \in DOMAIN CODE_FORMATS : Matches(path, CODE_FORMATS[i])}

\* C5: with the registry CODE_FORMATS every path is in the list of at most
\* one tool, a path matching no extension is in no list, and a matching
\* path is in the list of the first, and only, tool whose extensions hold
\* one of its suffixes.
C5_OneTool ==
    pc = "built" =>
        \A path \in Range(files) :
            /\ Cardinality(Owners(path)) <= 1
            /\ Cardinality(Matching(path)) <= 1
            /\ Matching(path) = {} => Owners(path) = {}
            /\ \A i \in Matching(path) :
                  /\ \A j \in Matching(path) : i <= j
                  /\ \E g \in Owners(path) :
                        formats[g][1] = CODE_FORMATS[i].language

C5_Witness ==
    /\ pc = "built"
    /\ files = << <<"a", ".", "g", "o">> >>
    /\ formats = << <<"Go", files>> >>

(***************************************************************************)
(* check_py_format over an arbitrary completed yapf process.               *)
(***************************************************************************)
PyPaths == {<<"/", "d", ".", "p", "y">>, <<"/", "e", ".", "p", "y">>}

StdoutLines ==
    {DiffLine("---", p, "(original)") :
        p \in PyPaths \cup {<<"/", "x", ".", "p", "y">>}}
    \cup {DiffLine("+++", <<"/", "d", ".", "p", "y">>, "(reformatted)"),
          DiffLine("-", <<" ", "a">>, ""), DiffLine("+", <<"a">>, "")}

InitPy ==
    /\ Idle
    /\ pc = "py"
    /\ files \in SeqsUpTo(PyPaths, MaxPaths) \ {<<>>}
    /\ disk = DiskInit
    /\ fmt \in ConstantForms({Good})
    /\ faults = {}
    /\ process \in [stdout     : SeqsUpTo(StdoutLines, MaxLines),
                    stderr     : {<<>>, <<"yapf: error">>},
                    returncode : {0, 1}]

CheckPyFormat ==
    /\ pc = "py"
    /\ \E r \in {PyErrors(files, process)} :
           /\ errors' = r.errors
           /\ logged' = logged + r.logged
    /\ trace' = Append(trace, Run("Python", "check", process.returncode))
    /\ pc' = "py_done"
    /\ UNCHANGED <<paths, base, fix, inGit, gitListing, files, formats, disk,
                   printed, exitCode, fmt, faults, process>>

NextPy == CheckPyFormat

SpecPy == InitPy /\ [][NextPy]_vars

HasSection(path) ==
    \E i \in DOMAIN process.stdout :
        IsDiffStart(process.stdout[i]) /\ process.stdout[i].text = path

\* C6 as stated: when yapf wrote to standard error, every path given is in
\* the mapping with an empty diff and the error is logged once, also when
\* yapf wrote diffs for some of the paths.
C6_AllUnknown ==
    (pc = "py_done" /\ process.stderr # <<>>) =>
        /\ logged = 1
        /\ \A f \in Range(files) : f \in Keys(errors) /\ Get(errors, f) = <<>>

\* C6, amended: when yapf wrote to standard error, every path given is in
\* the mapping and the error is logged once; a path has an empty diff
\* exactly when yapf wrote no diff for it, and otherwise keeps the diff
\* yapf wrote.
C6_UnknownUnlessDiffed ==
    (pc = "py_done" /\ process.stderr # <<>>) =>
        /\ logged = 1
        /\ \A f \in Range(files) :
              /\ f \in Keys(errors)
              /\ Get(errors, f) = <<>> <=> ~HasSection(f)
              /\ HasSection(f) =>
                    LET diff == Get(errors, f)
                    IN  /\ diff[1].tag = "---"
                        /\ diff[1].text = f
                        /\ diff[1].color = "bold_white"

C6_Witness ==
    /\ pc = "py_done"
    /\ process.stderr # <<>>
    /\ Len(files) = 2
    /\ HasSection(files[1])
    /\ ~HasSection(files[2])
    /\ Len(errors) = 2

(***************************************************************************)
(* One per-file adapter over one file of arbitrary content, with a tool    *)
(* that produces an arbitrary output for it.                               *)
(***************************************************************************)
Contents == SeqsUpTo(Bytes, MaxLen)

PerFilePaths == (<<"/", "a", ".", "c", "c">> :> "C and C++")
             @@ (<<"/", "b", ".", "g", "n">> :> "GN")
             @@ (<<"/", "c", ".", "g", "o">> :> "Go")

InitCheckFiles ==
    /\ Idle
    /\ pc = "built"
    /\ files \in {<<p>> : p \in DOMAIN PerFilePaths}
    /\ disk \in {files[1] :> original : original \in Contents}
    /\ fmt \in {disk[files[1]] :> formatted : formatted \in Contents}
    /\ faults = {}
    /\ process = NoProcess

CheckFormat ==
    /\ pc = "built"
    /\ \E r \in {Check(PerFilePaths[files[1]], files, disk)} :
           /\ errors' = r.errors
           /\ trace' = trace \o r.trace
           /\ logged' = logged + r.logged
           /\ pc' = IF r.raised THEN "raised" ELSE "checked"
    /\ UNCHANGED <<paths, base, fix, inGit, gitListing, files, formats, disk,
                   printed, exitCode, fmt, faults, process>>

NextCheckFiles == CheckFormat

SpecCheckFiles == InitCheckFiles /\ [][NextCheckFiles]_vars

\* C10: a per-file adapter reports a path exactly when the tool's output
\* differs from the file's bytes, and then with a non-empty diff, also when
\* the two differ only in bytes that are invalid for decoding.
C10_EntryIffBytesDiffer ==
    pc = "checked" =>
        \A path \in Range(files) :
            /\ path \in Keys(errors) <=> Format(disk[path]) # disk[path]
            /\ path \in Keys(errors) => Get(errors, path) # <<>>

====
